---- MODULE Spec2Model ----
(***************************************************************************)
(* web-shim: the render-worker pool, its two task channels, the request    *)
(* handlers with their cache probe, the supervisor's replace loop, the      *)
(* presigned-url gate of /static/ and the two rate limiters.                *)
(*                                                                         *)
(* Option<T> values are sequences: None is <<>>, Some(x) is <<x>>.         *)
(***************************************************************************)
EXTENDS Integers, Sequences, FiniteSets, TLC

\* ------------------------------------------------------------------ bounds
MaxReq == 2          \* requests the HTTP server accepts in one behaviour
MaxTime == 1         \* the wall clock runs from 0 to MaxTime (seconds)
MaxCalls == 3        \* requests through the rate limiters

\* ------------------------------------------------------- program constants
PoolSize == 2        \* default_browser_pool_size
DefaultProbeTtl == 300   \* ttl.unwrap_or(60 * 5) of the screenshot probe
U8 == 256            \* pool_size is a u8

\* ------------------------------------------------------------------ options
None == <<>>
Some(x) == <<x>>
is_some(o) == o # <<>>
unwrap(o) == o[1]
unwrap_or(o, d) == IF o = <<>> THEN d ELSE o[1]

\* ------------------------------------------------------------ configuration
Cwd == "."
Roots == {"./static", "."}     \* values of buckets.default.dal.root
Kinds == {"screenshot", "pdf"}
Urls == {"https://a/"}
TTLs == {None, Some(0), Some(1)}
ReqIds == 1..MaxReq

\* The query parameters of a request (ScreenshotRequestQSParams,
\* PDFRequestQSParams), restricted to the fields the handlers' cache probe
\* and the workers' store path read.
Params == [kind : Kinds, url : Urls, ttl : TTLs]

\* requests that name no ttl
ColdParams == {p \in Params : p.ttl = None}

\* the id of the one PDF worker: (pool_size + 1) in u8 arithmetic
PdfWorkerId == (PoolSize + 1) % U8

VARIABLES
    now,        \* wall clock
    root,       \* dal root of the bucket (read once from config.json)
    fs,         \* the file system: path -> last modified time
    queue,      \* queue[k]: the unbounded channel of kind k (task records)
    mutex,      \* mutex[k]: Option<index of the worker holding the receiver>
    rch,        \* the supervisor's replace channel: ids in flight
    workers,    \* every worker task ever spawned, in spawn order
    params,     \* params[h]: Option<query parameters of request h>
    hpc,        \* hpc[h]: where the handler of request h is
    oneshot,    \* oneshot[h]: the reply channel of request h
    resp,       \* resp[h]: the HTTP response of request h (status 0: none yet)
    probe,      \* probe[h]: Option<what the cache probe of h saw>
    fault,      \* fault[h]: what failed in the render of request h's task
    enq,        \* request ids in the order their tasks were enqueued
    deq,        \* deq[h]: how many times the task of request h was dequeued
    issued,     \* Option<the presigned url last produced by to_url>
    sreq,       \* Option<the request last made to the /static/ route>
    sres,       \* Option<what the /static/ route did with sreq>
    mono,       \* the rate limiters' monotonic clock (milliseconds)
    rl_cfg,     \* the rate_limiting configs: http (global) and bucket
    ip_tat,     \* the IP limiter's state: remote address -> Option<instant>
    ns_tat,     \* the namespace limiters' states: route -> Option<instant>
    rl_log,     \* what the limiter middlewares did with each request so far
    pdf_tasks,  \* the PDF tasks in flight, as far as their print parameters go
    print_log,  \* the page.pdf calls made so far, each with the task it served
    shot_log,   \* the screenshot tasks built so far, each with its query and key
    boot        \* the supervisor's startup: pool_size and the PDF worker's id

\* the render pool, its channels and the handlers
pool_vars == <<root, fs, queue, mutex, rch, workers, params, hpc, oneshot,
               resp, probe, fault, enq, deq>>
\* the /static/ route
gate_vars == <<issued, sreq, sres>>
\* the rate limiting middlewares
limit_vars == <<mono, rl_cfg, ip_tat, ns_tat, rl_log>>
\* the print parameters of the PDF route
print_vars == <<pdf_tasks, print_log>>
\* the artifact keys and task parameters of the screenshot route
key_vars == <<shot_log>>
\* what the render pool and the handlers leave alone
edge == <<gate_vars, limit_vars, print_vars, key_vars, boot>>

vars == <<now, pool_vars, gate_vars, limit_vars, print_vars, key_vars, boot>>

\* ----------------------------------------------------------- fingerprint
\* calculate_hash: DefaultHasher::new() has fixed keys, so the hash is a
\* function of the bytes fed to it; it is modelled as the fed value itself
\* (collisions of the 64-bit hash are not modelled).
calculate_hash(t) == t

\* url.origin().ascii_serialization()
origin(url) == url

\* #[derive(Hash)] feeds every field of the struct, ttl included, in
\* declaration order.
filename(p) == <<calculate_hash(origin(p.url)), calculate_hash(<<p.url, p.ttl>>)>>

\* the extension the worker appends: the bucket's default format is Jpeg
\* for a screenshot whose query names no format; "pdf" for a PDF.
ext_of(kind) == IF kind = "pdf" THEN "pdf" ELSE "jpg"

\* a path is <<directory, filename, extension>>
StorePath(dir, name, ext) == <<dir, name, ext>>

exists(path) == path \in DOMAIN fs
modified(path) == fs[path]

\* op.write(path, bytes): creates or overwrites, last_modified = now
write(f, path, t) == [q \in DOMAIN f \cup {path} |-> IF q = path THEN t ELSE f[q]]

\* ----------------------------------------------------------------- channels
\* UnboundedSender::unbounded_send: the message goes to the back
unbounded_send_front(q, task) == <<task>> \o q
unbounded_send(q, task) == Append(q, task)

\* StreamExt::next on the receiver: the message at the front is the one
\* received, and it is removed
next_item(q) == Head(q)
next_rest_keep(q) == q
next_rest(q) == Tail(q)

\* oneshot channel states: "unused" (not created), "open", "sent" (a value
\* waits for the receiver), "tx_dropped" (sender dropped without sending),
\* "rx_dropped" (receiver dropped), "discarded" (a value was sent after the
\* receiver was dropped: send hands it back as Err(value))
Oneshot(st, val) == [st |-> st, val |-> val]

\* oneshot::Sender::send: Err(value) when the receiver is gone
send_result(ch) == IF ch.st = "open" THEN "Ok" ELSE "Err"
oneshot_send(ch, val) ==
    IF ch.st = "open" THEN Oneshot("sent", val) ELSE Oneshot("discarded", val)

\* the sender goes out of scope without a send
oneshot_drop_tx(ch) == IF ch.st = "open" THEN Oneshot("tx_dropped", None) ELSE ch

\* ScreenshotTask / PDFTask: the reply sender, the bucket-relative file
\* name without extension, and the url to navigate to
Task(h, p) == [tx |-> h, kind |-> p.kind, url |-> p.url, filename |-> filename(p)]

\* where the worker writes the artifact of a task: DAL_OP_MAP[bucket] is
\* rooted at the bucket's dal root
artifact_path(task) == StorePath(root, task.filename, ext_of(task.kind))

\* the redirect target a reply or a cache hit carries (the path part of
\* PresignedUrl::to_url)
Response(status, location) == [status |-> status, location |-> location]
NoResponse == Response(0, None)

\* --------------------------------------------------------------------- Init
Worker(id, kind) ==
    [id |-> id, kind |-> kind, pc |-> "lock", task |-> None, signalled |-> FALSE]

\* main: pool_size screenshot workers 0..pool_size-1, then one PDF worker
StartupWorkers ==
    [n \in 1..(PoolSize + 1) |->
        IF n <= PoolSize THEN Worker(n - 1, "screenshot")
                         ELSE Worker(PdfWorkerId, "pdf")]

PoolIdle ==
    /\ now = 0
    /\ root \in Roots
    /\ fs = <<>>
    /\ queue = [k \in Kinds |-> <<>>]
    /\ mutex = [k \in Kinds |-> None]
    /\ rch = <<>>
    /\ workers = StartupWorkers
    /\ params = [h \in ReqIds |-> None]
    /\ hpc = [h \in ReqIds |-> "new"]
    /\ oneshot = [h \in ReqIds |-> Oneshot("unused", None)]
    /\ resp = [h \in ReqIds |-> NoResponse]
    /\ probe = [h \in ReqIds |-> None]
    /\ fault = [h \in ReqIds |-> "none"]
    /\ enq = <<>>
    /\ deq = [h \in ReqIds |-> 0]

\* no url signed yet, no request to /static/ yet
GateIdle ==
    /\ issued = None
    /\ sreq = None
    /\ sres = None

\* ----------------------------------------------------------------- handlers
\* requests are numbered in arrival order
Arrives(h) == hpc[h] = "new" /\ (IF h = 1 THEN TRUE ELSE hpc[h - 1] # "new")

\* what the bucket's store holds for the request at the time of the probe
Seen(p) ==
    LET path == StorePath(root, filename(p), ext_of(p.kind))
    IN  [lm |-> IF exists(path) THEN Some(modified(path)) ELSE None, at |-> now]

\* the part of both handlers after the probe missed: create the oneshot,
\* push the task, wait for the reply
Enqueue(h, p) ==
    /\ oneshot' = [oneshot EXCEPT ![h] = Oneshot("open", None)]
    /\ queue' = [queue EXCEPT ![p.kind] = unbounded_send(@, Task(h, p))]
    /\ enq' = Append(enq, h)
    /\ hpc' = [hpc EXCEPT ![h] = "wait"]
    /\ resp' = resp

CacheRedirect(h, location) ==
    /\ hpc' = [hpc EXCEPT ![h] = "done"]
    /\ resp' = [resp EXCEPT ![h] = Response(302, Some(location))]
    /\ UNCHANGED <<oneshot, queue, enq>>

\* screenshot(): the probe looks for "<filename>.<ext>" relative to the
\* working directory, for the three extensions in turn
ProbeExts == <<"png", "jpg", "webp">>
fresh_screenshot(path, ttl) ==
    /\ exists(path)
    /\ unwrap_or(ttl, DefaultProbeTtl) > 0
    /\ now - modified(path) < unwrap_or(ttl, DefaultProbeTtl)

screenshot(h, offered) ==
    /\ Arrives(h)
    /\ \E p \in {q \in offered : q.kind = "screenshot"} :
        LET name == filename(p)
            hits == {n \in 1..Len(ProbeExts) :
                        fresh_screenshot(StorePath(Cwd, name, ProbeExts[n]), p.ttl)}
        IN  /\ params' = [params EXCEPT ![h] = Some(p)]
            /\ probe' = [probe EXCEPT ![h] = Some(Seen(p))]
            /\ IF hits # {}
               THEN LET n == CHOOSE m \in hits : \A o \in hits : m <= o
                    IN  CacheRedirect(h, StorePath("/", name, ProbeExts[n]))
               ELSE Enqueue(h, p)
    /\ UNCHANGED <<now, root, fs, mutex, rch, workers, fault, deq>>
    /\ UNCHANGED edge

\* pdf(): op.is_exist(&path).await && ttl.is_some()
pdf(h, offered) ==
    /\ Arrives(h)
    /\ \E p \in {q \in offered : q.kind = "pdf"} :
        /\ params' = [params EXCEPT ![h] = Some(p)]
        /\ IF exists(StorePath(root, filename(p), "pdf")) /\ is_some(p.ttl)
           THEN /\ hpc' = [hpc EXCEPT ![h] = "stat"]
                /\ UNCHANGED <<oneshot, queue, enq, resp, probe>>
           ELSE /\ probe' = [probe EXCEPT ![h] = Some(Seen(p))]
                /\ Enqueue(h, p)
    /\ UNCHANGED <<now, root, fs, mutex, rch, workers, fault, deq>>
    /\ UNCHANGED edge

\* pdf(): op.stat(&path).await ... last_modified + ttl >= Local::now()
fresh_pdf(path, ttl) == modified(path) + unwrap(ttl) >= now

pdf_stat(h) ==
    /\ hpc[h] = "stat"
    /\ LET p == unwrap(params[h])
           path == StorePath(root, filename(p), "pdf")
       IN  /\ probe' = [probe EXCEPT ![h] = Some(Seen(p))]
           /\ IF fresh_pdf(path, p.ttl)
              THEN CacheRedirect(h, path)
              ELSE Enqueue(h, p)
    /\ UNCHANGED <<now, root, fs, mutex, rch, workers, params, fault, deq>>
    /\ UNCHANGED edge

\* if let Ok(Some(filename)) = rx.await { Redirect::new(filename) }
\* else Err(InternalServerError)
reply_response_sent(ch) ==
    IF ch.st = "sent" THEN Response(302, ch.val) ELSE Response(500, None)
reply_response(ch) ==
    IF ch.st = "sent" /\ is_some(ch.val) THEN Response(302, ch.val)
                                          ELSE Response(500, None)

\* rx.await: Ok(Some(url)) redirects, anything else is a 500
rx_await(h) ==
    /\ hpc[h] = "wait"
    /\ oneshot[h].st \in {"sent", "tx_dropped"}
    /\ hpc' = [hpc EXCEPT ![h] = "done"]
    /\ resp' = [resp EXCEPT ![h] = reply_response(oneshot[h])]
    /\ UNCHANGED <<now, root, fs, queue, mutex, rch, workers, params, oneshot,
                   probe, fault, enq, deq>>
    /\ UNCHANGED edge

\* the client disconnects while the handler waits: the handler's future is
\* dropped at rx.await, and the receiver with it
disconnect(h) ==
    /\ hpc[h] = "wait"
    /\ hpc' = [hpc EXCEPT ![h] = "cancelled"]
    /\ oneshot' = [oneshot EXCEPT ![h] = Oneshot("rx_dropped", None)]
    /\ UNCHANGED <<now, root, fs, queue, mutex, rch, workers, params, resp,
                   probe, fault, enq, deq>>
    /\ UNCHANGED edge

\* req.query::<..RequestQSParams>(): the query strings a client can write
\* carry a url or none, a ttl or none, each as the text the client chose
RawUrls == Urls \cup {"a"}
RawTtls == {"1", "x"}
RawQueries == [url : {None} \cup {Some(u) : u \in RawUrls},
               ttl : {None} \cup {Some(t) : t \in RawTtls}]

\* Url::parse accepts an absolute url; u64::from_str accepts digits
is_url(text) == text \in Urls
is_u64(text) == text \in {"0", "1"}
u64_of(text) == IF text = "0" THEN 0 ELSE 1

\* the deserialization succeeds: url is required, ttl is optional
qs_ok(raw) ==
    /\ is_some(raw.url) /\ is_url(unwrap(raw.url))
    /\ is_some(raw.ttl) => is_u64(unwrap(raw.ttl))

\* the params a query that deserializes yields for the handler of a kind
req_query(kind, raw) ==
    [kind |-> kind, url |-> unwrap(raw.url),
     ttl |-> IF is_some(raw.ttl) THEN Some(u64_of(unwrap(raw.ttl))) ELSE None]

Deserialized == {req_query(kind, raw) : kind \in Kinds, raw \in {r \in RawQueries : qs_ok(r)}}

\* let params = req.query().unwrap() of screenshot() and of pdf() on a
\* query that does not deserialize: the unwrap panics, the handler's task
\* ends there and no response is written
query_unwrap(h, raw) ==
    /\ Arrives(h)
    /\ ~qs_ok(raw)
    /\ hpc' = [hpc EXCEPT ![h] = "panicked"]
    /\ UNCHANGED <<now, root, fs, queue, mutex, rch, workers, params, oneshot,
                   resp, probe, fault, enq, deq>>
    /\ UNCHANGED edge

\* the wall clock. It is read by a store write (last_modified) and by a cache
\* probe, which compares it with a last_modified; it is let run from the
\* first write on, while a probe is still to come.
Tick ==
    /\ now < MaxTime
    /\ fs # <<>>
    /\ \E h \in ReqIds : hpc[h] \in {"new", "stat"}
    /\ now' = now + 1
    /\ UNCHANGED <<root, fs, queue, mutex, rch, workers, params, hpc, oneshot,
                   resp, probe, fault, enq, deq>>
    /\ UNCHANGED edge

\* ------------------------------------------------------------------ workers
\* The awaits of one render that touch only the worker's own page (goto,
\* the metrics override, the capture; goto, the settle sleep, the print) are
\* one step: no other task can observe the page between them.
Set(i, w) == [workers EXCEPT ![i] = w]
task_of(i) == unwrap(workers[i].task)

\* SCREENSHOT_TASK_CHANNEL.1.lock().await / PDF_TASK_CHANNEL.1.lock().await
lock(i) ==
    /\ i \in DOMAIN workers
    /\ workers[i].pc = "lock"
    /\ mutex[workers[i].kind] = None
    /\ mutex' = [mutex EXCEPT ![workers[i].kind] = Some(i)]
    /\ workers' = Set(i, [workers[i] EXCEPT !.pc = "next"])
    /\ UNCHANGED <<now, root, fs, queue, rch, params, hpc, oneshot, resp,
                   probe, fault, enq, deq>>
    /\ UNCHANGED edge

\* where the MutexGuard temporary of `...lock().await.next().await` is dropped:
\* ScreenshotWorker takes the task in a `let` statement (the guard goes at the
\* end of the statement), PDFWorker in the scrutinee of an `if let` (the guard
\* lives until the end of the block, across worker(..).await and tx.send)
guard_scope(k) == IF k = "pdf" THEN "block" ELSE "statement"

\* drop(MutexGuard) of futures::lock::Mutex (no poisoning: an unwinding
\* holder releases it too)
unlock(k) == [mutex EXCEPT ![k] = None]

\* .next().await: the guard is held until the task has been taken
next(i) ==
    /\ i \in DOMAIN workers
    /\ workers[i].pc = "next"
    /\ queue[workers[i].kind] # <<>>
    /\ LET k == workers[i].kind
           task == next_item(queue[k])
       IN  /\ queue' = [queue EXCEPT ![k] = next_rest(@)]
           /\ mutex' = IF guard_scope(k) = "statement" THEN unlock(k) ELSE mutex
           /\ workers' = Set(i, [workers[i] EXCEPT !.pc = "render",
                                                  !.task = Some(task)])
           /\ deq' = [deq EXCEPT ![task.tx] = @ + 1]
    /\ UNCHANGED <<now, root, fs, rch, params, hpc, oneshot, resp, probe,
                   fault, enq>>
    /\ UNCHANGED edge

\* the reply sender of the worker's task goes out of scope unsent
DropTx(i) == oneshot' = [oneshot EXCEPT ![task_of(i).tx] = oneshot_drop_tx(@)]

\* tx.send(val) on the reply sender of the worker's task
Reply_first(i, val) == oneshot' = [oneshot EXCEPT ![1] = oneshot_send(@, val)]
Reply(i, val) == oneshot' = [oneshot EXCEPT ![task_of(i).tx] = oneshot_send(@, val)]

Fault(i, f) == fault' = [fault EXCEPT ![task_of(i).tx] = f]

\* the worker task ends by a panic (an unwrap on an Err): every local is
\* dropped, the reply sender included; page.close() is not reached
Panic(i, f) ==
    /\ workers' = Set(i, [workers[i] EXCEPT !.pc = "dead"])
    /\ DropTx(i)
    /\ Fault(i, f)

\* where the screenshot loop goes after `let _ = tx.send(..)`: the result is
\* discarded, the page is reset (let _ = page.goto("about:blank").await)
\* and the loop continues
after_send_unwrap(result) == IF result = "Err" THEN "dead" ELSE "blank"
after_send(result) == "blank"

ScreenshotResults == {"ok", "timeout", "error", "metrics", "capture"}

\* ScreenshotWorker, from page.goto(navigate_params) to page.screenshot(..):
\*   goto Err(Timeout): ptx.try_send(id).unwrap(), then break
\*   goto Err(other):   logged, then break
\*   execute(SetDeviceMetricsOverride).await.unwrap()
\*   screenshot Err:    tx.send(None), blank, continue
\* break leaves the loop body, which drops the task's reply sender
screenshot_render(i) ==
    /\ i \in DOMAIN workers
    /\ workers[i].kind = "screenshot" /\ workers[i].pc = "render"
    /\ \E r \in ScreenshotResults :
        CASE r = "ok" ->
                /\ workers' = Set(i, [workers[i] EXCEPT !.pc = "write"])
                /\ UNCHANGED <<rch, oneshot, fault>>
          [] r = "timeout" ->
                /\ rch' = Append(rch, workers[i].id)
                /\ workers' = Set(i, [workers[i] EXCEPT !.pc = "close",
                                                       !.signalled = TRUE])
                /\ DropTx(i)
                /\ Fault(i, "timeout")
          [] r = "error" ->
                /\ workers' = Set(i, [workers[i] EXCEPT !.pc = "close"])
                /\ DropTx(i)
                /\ Fault(i, "nav")
                /\ rch' = rch
          [] r = "metrics" ->
                /\ Panic(i, "metrics")
                /\ rch' = rch
          [] r = "capture" ->
                /\ Reply(i, None)
                /\ workers' = Set(i, [workers[i] EXCEPT
                        !.pc = after_send(send_result(oneshot[task_of(i).tx]))])
                /\ Fault(i, "capture")
                /\ rch' = rch
    /\ UNCHANGED <<now, root, fs, queue, mutex, params, hpc, resp, probe, enq, deq>>
    /\ UNCHANGED edge

\* DAL_OP_MAP[bucket].write(&filename, img_buf).await.unwrap(), then
\* tx.send(Some(PresignedUrl::new(&file_path, token).to_url()))
screenshot_write(i) ==
    /\ i \in DOMAIN workers
    /\ workers[i].kind = "screenshot" /\ workers[i].pc = "write"
    /\ \E ok \in BOOLEAN :
        IF ok THEN /\ fs' = write(fs, artifact_path(task_of(i)), now)
                   /\ Reply(i, Some(artifact_path(task_of(i))))
                   /\ workers' = Set(i, [workers[i] EXCEPT
                        !.pc = after_send(send_result(oneshot[task_of(i).tx]))])
                   /\ fault' = fault
              ELSE /\ Panic(i, "write")
                   /\ fs' = fs
    /\ UNCHANGED <<now, root, queue, mutex, rch, params, hpc, resp, probe, enq, deq>>
    /\ UNCHANGED edge

\* let _ = page.goto("about:blank").await; continue
screenshot_blank(i) ==
    /\ i \in DOMAIN workers
    /\ workers[i].kind = "screenshot" /\ workers[i].pc = "blank"
    /\ workers' = Set(i, [workers[i] EXCEPT !.pc = "lock", !.task = None])
    /\ UNCHANGED <<now, root, fs, queue, mutex, rch, params, hpc, oneshot, resp,
                   probe, fault, enq, deq>>
    /\ UNCHANGED edge

\* after the loop: let _ = page.close().await; the task ends
screenshot_close(i) ==
    /\ i \in DOMAIN workers
    /\ workers[i].kind = "screenshot" /\ workers[i].pc = "close"
    /\ workers' = Set(i, [workers[i] EXCEPT !.pc = "dead"])
    /\ UNCHANGED <<now, root, fs, queue, mutex, rch, params, hpc, oneshot, resp,
                   probe, fault, enq, deq>>
    /\ UNCHANGED edge

PdfResults == {"ok", "timeout", "error", "capture"}

\* the end of PDFWorker's `if let` block, by its last statement or by
\* unwinding: the temporaries of the scrutinee are dropped
end_of_block(i) ==
    IF guard_scope(workers[i].kind) = "block" /\ mutex[workers[i].kind] = Some(i)
    THEN unlock(workers[i].kind) ELSE mutex

\* worker(): page.goto(navigate_params).await.unwrap(), sleep(10 s),
\* page.pdf(..).await.unwrap()
pdf_render(i) ==
    /\ i \in DOMAIN workers
    /\ workers[i].kind = "pdf" /\ workers[i].pc = "render"
    /\ \E r \in PdfResults :
        CASE r = "ok" ->
                /\ workers' = Set(i, [workers[i] EXCEPT !.pc = "write"])
                /\ UNCHANGED <<oneshot, fault, mutex>>
          [] r = "timeout" -> Panic(i, "timeout") /\ mutex' = end_of_block(i)
          [] r = "error" -> Panic(i, "nav") /\ mutex' = end_of_block(i)
          [] r = "capture" -> Panic(i, "capture") /\ mutex' = end_of_block(i)
    /\ UNCHANGED <<now, root, fs, queue, rch, params, hpc, resp, probe,
                   enq, deq>>
    /\ UNCHANGED edge

\* worker(): op.write(&filename, img_buf).await; the Result is not looked at
pdf_write(i) ==
    /\ i \in DOMAIN workers
    /\ workers[i].kind = "pdf" /\ workers[i].pc = "write"
    /\ \E ok \in BOOLEAN :
        IF ok THEN /\ fs' = write(fs, artifact_path(task_of(i)), now)
                   /\ fault' = fault
              ELSE /\ fs' = fs
                   /\ Fault(i, "write")
    /\ workers' = Set(i, [workers[i] EXCEPT !.pc = "blank"])
    /\ UNCHANGED <<now, root, queue, mutex, rch, params, hpc, oneshot, resp,
                   probe, enq, deq>>
    /\ UNCHANGED edge

\* where PDFWorker's loop goes after tx.send(Some(uri)): the result is
\* discarded and the loop takes the lock again
pdf_after_send(result) == "lock"

\* worker(): signed_url(..), page.goto("about:blank").await.unwrap(),
\* return Ok(signed_url); PDFWorker::new: Ok(uri) => tx.send(Some(uri))
pdf_blank(i) ==
    /\ i \in DOMAIN workers
    /\ workers[i].kind = "pdf" /\ workers[i].pc = "blank"
    /\ \E ok \in BOOLEAN :
        IF ok THEN /\ Reply(i, Some(artifact_path(task_of(i))))
                   /\ workers' = Set(i, [workers[i] EXCEPT
                        !.pc = pdf_after_send(send_result(oneshot[task_of(i).tx])),
                        !.task = None])
                   /\ fault' = fault
              ELSE Panic(i, "blank")
    /\ mutex' = end_of_block(i)
    /\ UNCHANGED <<now, root, fs, queue, rch, params, hpc, resp, probe,
                   enq, deq>>
    /\ UNCHANGED edge

\* --------------------------------------------------------------- supervisor
\* the class of the worker spawned for an id received on the replace channel
class_of_last(id) == IF id >= PoolSize - 1 THEN "pdf" ELSE "screenshot"
class_of(id) == IF id > PoolSize THEN "pdf" ELSE "screenshot"

\* loop { let id = rx.next().await.unwrap(); let page = browser.new_page(..);
\*        PDFWorker::new(id, ..) or ScreenshotWorker::new(id, ..) }
supervisor ==
    /\ rch # <<>>
    /\ rch' = Tail(rch)
    /\ workers' = Append(workers, Worker(Head(rch), class_of(Head(rch))))
    /\ UNCHANGED <<now, root, fs, queue, mutex, params, hpc, oneshot, resp,
                   probe, fault, enq, deq>>
    /\ UNCHANGED edge

\* ------------------------------------------------------------ u64 values
\* A u64 is represented by the integer s that is congruent to it modulo 2^64
\* and nearest to 0: 0, 1, 2, ... stand for themselves, -1 for u64::MAX, -2
\* for u64::MAX - 1, ...  (every value the model uses is within 2^31 of 0 or
\* of 2^64).
u64_lt(a, b) == IF (a < 0) = (b < 0) THEN a < b ELSE b < 0

\* a + b is not below 2^64
u64_carry(a, b) == (a < 0 /\ b < 0) \/ ((a < 0) # (b < 0) /\ a + b >= 0)

\* a + b modulo 2^64
wrapping_add(a, b) == a + b

\* ------------------------------------------------------------ presigned urls
\* Duration::from_secs_f32(3600.0).as_secs()
Expires == 3600

\* util::time::now(): the wall clock in unix seconds
time_now == now

Algorithm == "AWS4-HMAC-SHA256"

\* buckets.*.access_token of the configuration
AccessTokens == {"secret"}

\* the strings a client may put into x_amz_credential
Credentials == AccessTokens \cup {"guess"}

\* paths below /static/
Paths == {"/static/a.jpg", "/static/b.jpg"}

\* PresignedUrl::new(path, access_key_id)
PresignedUrl_new(path, access_key_id) ==
    [path |-> path, x_amz_algorithm |-> Algorithm,
     x_amz_credential |-> access_key_id, x_amz_date |-> time_now,
     x_amz_expires |-> Expires]

\* serde_json::to_string(self): the fields of PresignedUrl in declaration
\* order (the text is a one-to-one function of the five field values)
to_json_no_path(u) ==
    <<"", u.x_amz_algorithm, u.x_amz_credential, u.x_amz_date, u.x_amz_expires>>
to_json(u) ==
    <<u.path, u.x_amz_algorithm, u.x_amz_credential, u.x_amz_date, u.x_amz_expires>>

\* sha1_hex: modelled as the bytes fed to it (collisions of SHA-1 are not
\* modelled)
sha1_hex(data) == data

\* PresignedUrl::sign
sign(u) == sha1_hex(to_json(u))

\* the keys of PresignedQs (serde's names of the struct's fields)
QsKeys == {"x_amz_algorithm", "x_amz_credential", "x_amz_date",
           "x_amz_expires", "x_amz_signature"}

\* PresignedUrl::to_qs: a query string is the function from its keys to
\* their values (serde_qs writes one key=value pair per field, and reads them
\* back by key)
to_qs(u) ==
    [x_amz_algorithm |-> u.x_amz_algorithm,
     x_amz_credential |-> u.x_amz_credential,
     x_amz_date |-> u.x_amz_date,
     x_amz_expires |-> u.x_amz_expires,
     x_amz_signature |-> sign(u)]

\* PresignedUrl::to_url: "<path>?<query>"
to_url(u) == [path |-> u.path, query |-> to_qs(u)]

\* req.query::<PresignedQs>(): Ok when the five fields are there
query_ok(query) == QsKeys \subseteq DOMAIN query

Ok(v) == [tag |-> "Ok", val |-> v]
Err(msg) == [tag |-> "Err", val |-> msg]
\* the handler task panicked: it returns nothing
Panicked == [tag |-> "panic", val |-> ""]

\* x_amz_date + x_amz_expires < ts_now
expired_at(date, expires, ts) == ~u64_lt(ts, wrapping_add(date, expires))
expired(date, expires, ts) == u64_lt(wrapping_add(date, expires), ts)

\* PresignedUrl::from_req at time ts. overflow_checks: the build panics on
\* an overflowing u64 addition (debug profile) instead of wrapping (release)
from_req(req, ts, overflow_checks) ==
    IF ~query_ok(req.query) THEN Err("invalid query")
    ELSE LET q == req.query
         IN  IF u64_lt(ts, q.x_amz_date) THEN Err("WTF")
             ELSE IF overflow_checks /\ u64_carry(q.x_amz_date, q.x_amz_expires)
                  THEN Panicked
             ELSE IF expired(q.x_amz_date, q.x_amz_expires, ts) THEN Err("timeout")
             ELSE IF sign([path |-> req.path,
                           x_amz_algorithm |-> q.x_amz_algorithm,
                           x_amz_credential |-> q.x_amz_credential,
                           x_amz_date |-> q.x_amz_date,
                           x_amz_expires |-> q.x_amz_expires]) # q.x_amz_signature
                  THEN Err("invalid signature")
             ELSE Ok(q.x_amz_credential)

\* LfsAccessControlMiddleware::handle: Ok(_) => next.run(req) (the file
\* server), Err(_) => 401. status 0: no response (the task panicked)
handle(result) ==
    CASE result.tag = "Ok" -> [status |-> 200, forwarded |-> TRUE, result |-> result]
      [] result.tag = "Err" -> [status |-> 401, forwarded |-> FALSE, result |-> result]
      [] OTHER -> [status |-> 0, forwarded |-> FALSE, result |-> result]

\* what a client can put into the five query fields
Dates == {0, 1}
ExpiresGiven == {Expires, -1}
SignedUrls ==
    [path : Paths, x_amz_algorithm : {Algorithm}, x_amz_credential : Credentials,
     x_amz_date : Dates, x_amz_expires : ExpiresGiven]
Signatures == {sign(u) : u \in SignedUrls}
FullQueries ==
    [x_amz_algorithm : {Algorithm}, x_amz_credential : Credentials,
     x_amz_date : Dates, x_amz_expires : ExpiresGiven,
     x_amz_signature : Signatures]

\* a query string with one of its pairs left out
Without(query, key) == [k \in DOMAIN query \ {key} |-> query[k]]
PartQueries == {Without(to_qs(u), k) : u \in SignedUrls, k \in QsKeys} \cup {<<>>}

\* the requests a client can make to /static/: any path with any query it
\* can write, and the url it was last redirected to, as it is or with
\* another path
StaticRequests ==
    [path : Paths, query : FullQueries \cup PartQueries]
    \cup (IF issued = None THEN {}
          ELSE {[path |-> p, query |-> unwrap(issued).query] : p \in Paths})

\* a worker (screenshot.rs:144-150, signed_url) signs the path of the
\* artifact with the bucket's access token: PresignedUrl::new(..).to_url()
presign(path, token) ==
    /\ issued' = Some(to_url(PresignedUrl_new(path, token)))
    /\ UNCHANGED <<now, sreq, sres, pool_vars, limit_vars, print_vars, key_vars, boot>>

\* GET /static/..: LfsAccessControlMiddleware::handle, then serve_dir. The
\* route keeps nothing from one request to the next: one request is looked
\* at in a behaviour.
static_get(req) ==
    /\ sreq = None
    /\ sreq' = Some(req)
    /\ \E overflow_checks \in BOOLEAN :
           sres' = Some([at |-> time_now,
                         out |-> handle(from_req(req, time_now, overflow_checks))])
    /\ UNCHANGED <<now, issued, pool_vars, limit_vars, print_vars, key_vars, boot>>

\* the instants of the wall clock the /static/ route is looked at
Instants == {0, 1, Expires, Expires + 1, Expires + 2}

Elapse ==
    /\ \E t \in Instants : t > now /\ now' = t
    /\ UNCHANGED <<pool_vars, gate_vars, limit_vars, print_vars, key_vars, boot>>

\* -------------------------------------------------------------- rate limits
\* RateLimitingConfig
QPS(n) == [type |-> "QPS", times |-> n]
QPM(n) == [type |-> "QPM", times |-> n]
QPH(n) == [type |-> "QPH", times |-> n]

\* governor's Quota::per_second / per_minute, in milliseconds: a
\* burst of n cells, one cell replenished every period / n
Quota_per_second(n) == [max_burst |-> n, replenish_1_per |-> 1000 \div n]
Quota_per_minute(n) == [max_burst |-> n, replenish_1_per |-> 60000 \div n]

\* Fns::per_second, Fns::per_minute, Fns::per_hour
per_second(times) == Quota_per_second(times)
per_minute(times) == Quota_per_minute(times)
per_hour(times) == Quota_per_minute(times)

\* From<&RateLimitingConfig> for IpRateLimitingMiddleware and for
\* NSRateLimitingMiddleware
limiter_from(value) ==
    CASE value.type = "QPS" -> per_second(value.times)
      [] value.type = "QPM" -> per_minute(value.times)
      [] value.type = "QPH" -> per_hour(value.times)

Max(a, b) == IF a >= b THEN a ELSE b

\* governor's RateLimiter::check_key (GCRA) on the state of one key at
\* instant t0: tat is the theoretical arrival time stored for the key
check_key(quota, tat, t0) ==
    LET t == quota.replenish_1_per
        tau == t * quota.max_burst
        tat0 == unwrap_or(tat, t0 + t)
        earliest == Max(tat0 - tau, 0)
    IN  IF t0 < earliest
        THEN [ok |-> FALSE, tat |-> tat, wait |-> earliest - t0]
        ELSE [ok |-> TRUE, tat |-> Some(Max(tat0, t0) + t), wait |-> 0]

\* Duration::as_secs of a wait given in milliseconds: the whole seconds
as_secs_up(ms) == (ms + 999) \div 1000
as_secs(ms) == ms \div 1000

\* remote addresses, and the routes of the one bucket: each route is given
\* its own NSRateLimitingMiddleware (main.rs:103, main.rs:108)
IPs == {"10.0.0.1", "10.0.0.2"}
Routes == Kinds

\* the gaps between one request and the next (milliseconds)
Gaps == {0, 500, 60000}

\* IpRateLimitingMiddleware::handle: next.run(req) is called in the Ok arm of
\* check_key only
run_next_always(decision) == TRUE
run_next(decision) == decision.ok

\* a request arrives gap ms after the one before: IpRateLimitingMiddleware
\* (app.with), then the route's NSRateLimitingMiddleware, then the handler
limited_request(ip, route, gap) ==
    /\ Len(rl_log) < MaxCalls
    /\ mono' = mono + gap
    /\ LET ipd == check_key(limiter_from(rl_cfg.http), ip_tat[ip], mono')
           nsd == check_key(limiter_from(rl_cfg.bucket), ns_tat[route], mono')
       IN  /\ ip_tat' = [ip_tat EXCEPT ![ip] = ipd.tat]
           /\ ns_tat' = IF run_next(ipd) THEN [ns_tat EXCEPT ![route] = nsd.tat]
                                        ELSE ns_tat
           /\ rl_log' = Append(rl_log,
                  [ip |-> ip, route |-> route, at |-> mono',
                   ip_ok |-> ipd.ok,
                   ns_ok |-> IF ipd.ok THEN Some(nsd.ok) ELSE None,
                   forwarded |-> ipd.ok /\ nsd.ok,
                   status |-> IF ipd.ok /\ nsd.ok THEN 0 ELSE 429,
                   retry_after |-> IF ~ipd.ok THEN Some(as_secs(ipd.wait))
                                   ELSE IF ~nsd.ok THEN Some(as_secs(nsd.wait))
                                   ELSE None])
    /\ UNCHANGED <<now, rl_cfg, pool_vars, gate_vars, print_vars, key_vars, boot>>

\* the limiters of the default configuration, nothing admitted yet
LimitIdle ==
    /\ mono = 0
    /\ rl_cfg = [http |-> QPS(100), bucket |-> QPM(15)]
    /\ ip_tat = [a \in IPs |-> None]
    /\ ns_tat = [r \in Routes |-> None]
    /\ rl_log = <<>>

\* ------------------------------------------------------ print parameters
\* The PDF route as far as the print parameters go: what the handler puts
\* into the task and what the worker hands to page.pdf. A scale (an f64) is
\* represented by its tenths: n stands for n / 10.0.
DefaultScale == 5

\* PrintToPdfParams, the two fields the route sets
PrintToPdfParams(print_background, scale) ==
    [print_background |-> print_background, scale |-> scale]

\* the scale and omit_background a PDF query can carry
Scales == {1, 5, 10}
PdfQueries == [scale : {None} \cup {Some(n) : n \in Scales},
               omit_background : {None, Some(TRUE), Some(FALSE)}]

\* pdf(): the PrintToPdfParams of the task, print_background:
\* omit_background and scale: Some(scale.unwrap_or(default scale) / 10.0)
cdp_params(q) ==
    PrintToPdfParams(q.omit_background, Some(unwrap_or(q.scale, DefaultScale)))

\* worker(): the PrintToPdfParams handed to page.pdf, print_background: None
\* and scale: Some(1.0), whatever the task's cdp_params are
page_pdf(cdp) == PrintToPdfParams(None, Some(10))

\* pdf() enqueues the task of a query
pdf_send(q) ==
    /\ Len(pdf_tasks) + Len(print_log) < MaxReq
    /\ pdf_tasks' = Append(pdf_tasks, [query |-> q, cdp |-> cdp_params(q)])
    /\ UNCHANGED <<now, print_log, pool_vars, gate_vars, limit_vars, key_vars, boot>>

\* the PDF worker takes the task at the front and prints
worker_print ==
    /\ pdf_tasks # <<>>
    /\ LET t == Head(pdf_tasks)
       IN  print_log' = Append(print_log,
               [query |-> t.query, cdp |-> t.cdp, printed |-> page_pdf(t.cdp)])
    /\ pdf_tasks' = Tail(pdf_tasks)
    /\ UNCHANGED <<now, pool_vars, gate_vars, limit_vars, key_vars, boot>>

\* no PDF task yet
PrintIdle ==
    /\ pdf_tasks = <<>>
    /\ print_log = <<>>

\* ------------------------------------------------- keys and task parameters
\* The screenshot route as far as the artifact key and the capture
\* parameters go: the handler hashes the query as deserialized and fills
\* the bucket's defaults in when it builds the task. A scale is represented
\* by its tenths, as above.

\* default_buckets_screenshot_task_params()
default_screenshot_task_params ==
    [format |-> Some("jpeg"), quality |-> Some(40), width |-> Some(1920),
     height |-> Some(1080), scale |-> Some(5)]

\* ScreenshotRequestQSParams: the queries of one url that differ in format,
\* quality and scale, each named or left out
Formats == {"jpeg", "png"}
ShotQueries ==
    [url : Urls,
     format : {None} \cup {Some(f) : f \in Formats},
     quality : {None, Some(40)},
     width : {None},
     height : {None},
     scale : {None, Some(5), Some(10)},
     ttl : {None},
     full_page : {None},
     omit_background : {None}]

\* ScreenshotRequestQSParams::filename: #[derive(Hash)] feeds every field
\* of the struct as deserialized, in declaration order
qs_filename(q) ==
    <<calculate_hash(origin(q.url)),
      calculate_hash(<<q.url, q.format, q.quality, q.width, q.height, q.scale,
                       q.ttl, q.full_page, q.omit_background>>)>>

\* screenshot(): the task's url, full_page, omit_background and its
\* CaptureScreenshotParams with the bucket's defaults filled in
capture_params(q) ==
    LET d == default_screenshot_task_params
    IN  [url |-> q.url,
         full_page |-> q.full_page,
         omit_background |-> q.omit_background,
         format |-> unwrap_or(q.format, unwrap(d.format)),
         quality |-> unwrap_or(q.quality, unwrap(d.quality)),
         width |-> unwrap_or(q.width, unwrap(d.width)),
         height |-> unwrap_or(q.height, unwrap(d.height)),
         scale |-> unwrap_or(q.scale, unwrap(d.scale))]

\* screenshot() computes the key of a query and builds its task
screenshot_task(q) ==
    /\ Len(shot_log) < MaxReq
    /\ shot_log' = Append(shot_log,
           [query |-> q, filename |-> qs_filename(q), task |-> capture_params(q)])
    /\ UNCHANGED <<now, pool_vars, gate_vars, limit_vars, print_vars, boot>>

\* no screenshot task yet
KeyIdle == shot_log = <<>>

\* ------------------------------------------------------------ startup ids
\* The supervisor's startup as far as the worker ids go, for any pool_size
\* the configuration can hold (a u8). The screenshot workers get the ids
\* 0..pool_size-1 (a range over usize); the PDF worker's id is computed in
\* u8 before it is widened.

\* a + b on u8: Some(sum), or None for the panic of a build with overflow
\* checks
u8_add(a, b, overflow_checks) ==
    IF a + b >= U8 /\ overflow_checks THEN None ELSE Some((a + b) % U8)

\* the supervisor's test on a received id: is the replacement a PDFWorker
replacement_test(id, pool_size) == id > pool_size

\* PDFWorker::new((SERVER_CONFIG.browser.pool_size + 1).into(), ..)
spawn_pdf_worker ==
    /\ boot.pc = "start"
    /\ \E overflow_checks \in BOOLEAN :
         LET id == u8_add(boot.pool_size, 1, overflow_checks)
         IN  boot' = IF id = None
                     THEN [boot EXCEPT !.pc = "panicked"]
                     ELSE [boot EXCEPT !.pc = "spawned", !.pdf_id = unwrap(id)]
    /\ UNCHANGED <<now, pool_vars, gate_vars, limit_vars, print_vars, key_vars>>

\* the startup is over, with the configured pool_size
Booted == boot = [pool_size |-> PoolSize, pc |-> "spawned", pdf_id |-> PdfWorkerId]

\* ---------------------------------------------------------- specifications
Init == PoolIdle /\ GateIdle /\ LimitIdle /\ PrintIdle /\ KeyIdle /\ Booted

Instances == 1..(PoolSize + 1 + MaxReq)

\* the steps of the worker tasks and of the supervisor
WorkerNext ==
    \/ \E i \in Instances : lock(i)
    \/ \E i \in Instances : next(i)
    \/ \E i \in Instances : screenshot_render(i)
    \/ \E i \in Instances : screenshot_write(i)
    \/ \E i \in Instances : screenshot_blank(i)
    \/ \E i \in Instances : screenshot_close(i)
    \/ \E i \in Instances : pdf_render(i)
    \/ \E i \in Instances : pdf_write(i)
    \/ \E i \in Instances : pdf_blank(i)
    \/ supervisor

\* every step the server takes by itself: what is left is the arrival of a
\* request, a client's disconnect and the clock
SystemNext ==
    \/ WorkerNext
    \/ \E h \in ReqIds : pdf_stat(h)
    \/ \E h \in ReqIds : rx_await(h)

Next ==
    \/ \E h \in ReqIds : screenshot(h, Params)
    \/ \E h \in ReqIds : pdf(h, Params)
    \/ \E h \in ReqIds : pdf_stat(h)
    \/ \E h \in ReqIds : rx_await(h)
    \/ \E h \in ReqIds : disconnect(h)
    \/ \E i \in Instances : lock(i)
    \/ \E i \in Instances : next(i)
    \/ \E i \in Instances : screenshot_render(i)
    \/ \E i \in Instances : screenshot_write(i)
    \/ \E i \in Instances : screenshot_blank(i)
    \/ \E i \in Instances : screenshot_close(i)
    \/ \E i \in Instances : pdf_render(i)
    \/ \E i \in Instances : pdf_write(i)
    \/ \E i \in Instances : pdf_blank(i)
    \/ supervisor
    \/ Tick

Spec == Init /\ [][Next]_vars

\* The pool and its channels under requests that name no ttl, with the
\* default dal root: no probe hits, every request enqueues, and the clock
\* is not read.
PoolInit == Init /\ root = "./static"

PoolNext ==
    \/ \E h \in ReqIds : screenshot(h, ColdParams)
    \/ \E h \in ReqIds : pdf(h, ColdParams)
    \/ \E h \in ReqIds : rx_await(h)
    \/ \E h \in ReqIds : disconnect(h)
    \/ \E i \in Instances : lock(i)
    \/ \E i \in Instances : next(i)
    \/ \E i \in Instances : screenshot_render(i)
    \/ \E i \in Instances : screenshot_write(i)
    \/ \E i \in Instances : screenshot_blank(i)
    \/ \E i \in Instances : screenshot_close(i)
    \/ \E i \in Instances : pdf_render(i)
    \/ \E i \in Instances : pdf_write(i)
    \/ \E i \in Instances : pdf_blank(i)
    \/ supervisor

PoolSpec == PoolInit /\ [][PoolNext]_vars

\* The handlers against a store rooted at the working directory (where the
\* screenshot probe looks), under requests that name ttl = 1 and clients
\* that stay connected: probes hit and miss as the clock runs.
WarmParams == {p \in Params : p.ttl = Some(1)}

WarmInit == Init /\ root = "."

WarmNext ==
    \/ \E h \in ReqIds : screenshot(h, WarmParams)
    \/ \E h \in ReqIds : pdf(h, WarmParams)
    \/ \E h \in ReqIds : pdf_stat(h)
    \/ \E h \in ReqIds : rx_await(h)
    \/ \E i \in Instances : lock(i)
    \/ \E i \in Instances : next(i)
    \/ \E i \in Instances : screenshot_render(i)
    \/ \E i \in Instances : screenshot_write(i)
    \/ \E i \in Instances : screenshot_blank(i)
    \/ \E i \in Instances : screenshot_close(i)
    \/ \E i \in Instances : pdf_render(i)
    \/ \E i \in Instances : pdf_write(i)
    \/ \E i \in Instances : pdf_blank(i)
    \/ supervisor
    \/ Tick

WarmSpec == WarmInit /\ [][WarmNext]_vars

\* The pool under requests for two different pages (two artifact keys on
\* the screenshot route) and clients that stay connected.
ReplyParams == ColdParams \cup {[kind |-> "screenshot", url |-> "https://b/", ttl |-> None]}

ReplyNext ==
    \/ \E h \in ReqIds : screenshot(h, ReplyParams)
    \/ \E h \in ReqIds : pdf(h, ReplyParams)
    \/ \E h \in ReqIds : rx_await(h)
    \/ \E i \in Instances : lock(i)
    \/ \E i \in Instances : next(i)
    \/ \E i \in Instances : screenshot_render(i)
    \/ \E i \in Instances : screenshot_write(i)
    \/ \E i \in Instances : screenshot_blank(i)
    \/ \E i \in Instances : screenshot_close(i)
    \/ \E i \in Instances : pdf_render(i)
    \/ \E i \in Instances : pdf_write(i)
    \/ \E i \in Instances : pdf_blank(i)
    \/ supervisor

ReplySpec == PoolInit /\ [][ReplyNext]_vars

\* The keys and task parameters of the screenshot route alone.
KeyNext == \E q \in ShotQueries : screenshot_task(q)

KeySpec == PoolInit /\ [][KeyNext]_vars

\* The startup ids alone, for every pool_size a configuration can hold; the
\* screenshot workers 0..pool_size-1 have been spawned.
BootInit ==
    /\ PoolIdle /\ root = "./static"
    /\ GateIdle /\ LimitIdle /\ PrintIdle /\ KeyIdle
    /\ boot \in [pool_size : 0..(U8 - 1), pc : {"start"}, pdf_id : {0}]

BootSpec == BootInit /\ [][spawn_pdf_worker]_vars

\* The print parameters of the PDF route alone.
PrintNext ==
    \/ \E q \in PdfQueries : pdf_send(q)
    \/ worker_print

PrintSpec == PoolInit /\ [][PrintNext]_vars

\* The handlers under the queries clients can write, well-formed or not,
\* with the default dal root and clients that stay connected.
QueryNext ==
    \/ \E h \in ReqIds : screenshot(h, Deserialized)
    \/ \E h \in ReqIds : pdf(h, Deserialized)
    \/ \E h \in ReqIds, raw \in RawQueries : query_unwrap(h, raw)
    \/ \E h \in ReqIds : pdf_stat(h)
    \/ \E h \in ReqIds : rx_await(h)
    \/ \E i \in Instances : lock(i)
    \/ \E i \in Instances : next(i)
    \/ \E i \in Instances : screenshot_render(i)
    \/ \E i \in Instances : screenshot_write(i)
    \/ \E i \in Instances : screenshot_blank(i)
    \/ \E i \in Instances : screenshot_close(i)
    \/ \E i \in Instances : pdf_render(i)
    \/ \E i \in Instances : pdf_write(i)
    \/ \E i \in Instances : pdf_blank(i)
    \/ supervisor
    \/ Tick

QuerySpec == PoolInit /\ [][QueryNext]_vars

\* The /static/ route alone: urls are signed, the clock moves, clients ask
\* for paths with the queries they can write.
GateNext ==
    \/ \E path \in Paths, token \in AccessTokens : presign(path, token)
    \/ \E req \in StaticRequests : static_get(req)
    \/ Elapse

GateSpec == PoolInit /\ [][GateNext]_vars

\* The rate limiting middlewares alone, under the configurations of
\* RLConfigs.
RLConfigs == {QPS(1), QPS(2), QPM(1), QPH(1)}

LimitInit ==
    /\ PoolIdle /\ root = "./static"
    /\ GateIdle
    /\ PrintIdle
    /\ KeyIdle
    /\ Booted
    /\ mono = 0
    /\ rl_cfg \in [http : RLConfigs, bucket : RLConfigs]
    /\ ip_tat = [a \in IPs |-> None]
    /\ ns_tat = [r \in Routes |-> None]
    /\ rl_log = <<>>

LimitNext ==
    \E ip \in IPs, route \in Routes, gap \in Gaps : limited_request(ip, route, gap)

LimitSpec == LimitInit /\ [][LimitNext]_vars


\* ------------------------------------------------------------------- claims
Range(seq) == {seq[n] : n \in 1..Len(seq)}
Queued(h) == Cardinality({n \in 1..Len(queue["screenshot"]) : queue["screenshot"][n].tx = h})
           + Cardinality({n \in 1..Len(queue["pdf"]) : queue["pdf"][n].tx = h})
kind_of(h) == unwrap(params[h]).kind

\* worker i took the task of request h and has not finished with it (a
\* worker that ended keeps the task it ended on)
Holds(i, h) == is_some(workers[i].task) /\ task_of(i).tx = h
Ended(i) == workers[i].pc \in {"close", "dead"}
Live == {i \in DOMAIN workers : workers[i].pc # "dead"}
Quiescent == ~ENABLED SystemNext

\* C1: once the server has no step left to take, whatever workers failed
\* before, there are exactly PoolSize + 1 live workers (PoolSize screenshot
\* workers and the PDF worker), with pairwise distinct ids.
C1_PoolConverges ==
    Quiescent =>
        /\ Cardinality(Live) = PoolSize + 1
        /\ \A i, j \in Live : i # j => workers[i].id # workers[j].id

\* C2: every enqueued task is at any time either in its channel exactly once
\* or was taken from it exactly once, at most one worker holds it, and it is
\* not left in the channel when the server has no step left to take while a
\* worker of its kind is live.
C2_ExactlyOnce ==
    \A h \in Range(enq) :
        /\ Queued(h) + deq[h] = 1
        /\ Cardinality({i \in DOMAIN workers : Holds(i, h)}) <= deq[h]
        /\ (Queued(h) = 1 /\ Quiescent) =>
               \A i \in Live : workers[i].kind # kind_of(h) \/ Ended(i)

\* two tasks of one kind were enqueued and two workers of that kind took one
\* each, and render them at the same time
C2_Witness ==
    \E i, j \in DOMAIN workers :
        /\ i # j
        /\ workers[i].kind = workers[j].kind
        /\ workers[i].pc = "render" /\ workers[j].pc = "render"
        /\ task_of(i).tx # task_of(j).tx

\* C3: once the server has no step left to take, no handler is still waiting
\* for its reply: every handler that enqueued a task has answered 302 or 500
\* (or its client has gone).
C3_HandlerAnswered == Quiescent => \A h \in ReqIds : hpc[h] # "wait"

\* C4: a handler whose request names a ttl and whose bucket holds the
\* artifact of the request enqueues if last_modified <= now - ttl, and
\* redirects without enqueuing if last_modified > now - ttl.
C4_CacheFreshness ==
    \A h \in ReqIds :
        (is_some(probe[h]) /\ is_some(unwrap(probe[h]).lm) /\ is_some(unwrap(params[h]).ttl)) =>
            LET lm == unwrap(unwrap(probe[h]).lm)
                at == unwrap(probe[h]).at
                ttl == unwrap(unwrap(params[h]).ttl)
            IN  /\ (lm <= at - ttl) => h \in Range(enq)
                /\ (lm > at - ttl) => (h \notin Range(enq) /\ resp[h].status = 302)

\* C5: a worker whose navigation timed out has sent its id on the replace
\* channel and has left its loop, and the id is in the channel or a worker
\* was spawned for it after that.
C5_TimeoutReplaced ==
    \A h \in ReqIds : fault[h] = "timeout" =>
        \E i \in DOMAIN workers :
            /\ Holds(i, h)
            /\ workers[i].signalled
            /\ Ended(i)
            /\ \/ workers[i].id \in Range(rch)
               \/ \E j \in DOMAIN workers : j > i /\ workers[j].id = workers[i].id

\* C6: a navigation error other than a timeout does not end the worker: the
\* reply sender is not dropped unsent, and the worker is in its loop.
C6_NavErrorContinues ==
    \A h \in ReqIds : fault[h] = "nav" =>
        /\ oneshot[h].st # "tx_dropped"
        /\ \A i \in DOMAIN workers : Holds(i, h) => ~Ended(i)

\* C7: a capture failure or a store write failure is never answered with a
\* Some(url) reply or a 302, and it does not end the worker.
C7_CaptureWriteFailure ==
    \A h \in ReqIds : fault[h] \in {"capture", "write"} =>
        /\ ~(oneshot[h].st \in {"sent", "discarded"} /\ is_some(oneshot[h].val))
        /\ resp[h].status # 302
        /\ \A i \in DOMAIN workers : Holds(i, h) => ~Ended(i)

\* C8: a reply sent after the handler dropped its receiver does not end the
\* worker that sent it (a worker that ended, ended on a task whose reply it
\* never sent), and the artifact the worker wrote for the task is in the
\* store, at the path the discarded Some(url) names.
C8_ClosedReplyTolerated ==
    /\ \A i \in DOMAIN workers : Ended(i) =>
            (is_some(workers[i].task) /\ oneshot[task_of(i).tx].st # "discarded")
    /\ \A h \in ReqIds :
            (oneshot[h].st = "discarded" /\ is_some(oneshot[h].val) /\ fault[h] = "none") =>
                exists(unwrap(oneshot[h].val))

\* the PDF worker wrote the artifact, sent Some(url) on a reply channel whose
\* receiver was dropped, and now renders another task
C8_Witness ==
    \E h \in ReqIds, i \in DOMAIN workers :
        /\ oneshot[h].st = "discarded" /\ is_some(oneshot[h].val)
        /\ fault[h] = "none" /\ exists(unwrap(oneshot[h].val))
        /\ hpc[h] = "cancelled"
        /\ deq[h] = 1
        /\ is_some(workers[i].task) /\ task_of(i).tx # h
        /\ workers[i].kind = "pdf" /\ kind_of(h) = "pdf"
        /\ workers[i].pc = "render"

\* C9: no two live workers have the same id.
C9_OneLivePerId ==
    \A i, j \in Live : i # j => workers[i].id # workers[j].id

the_req == unwrap(sreq)
the_out == unwrap(sres).out
the_url == unwrap(issued)

\* C13: the url produced by signing (path, token) at time t, presented as it
\* is at any time in [t, t + 3600], is accepted, and verification returns the
\* token as credential.
C13_RoundTrip ==
    (is_some(issued) /\ is_some(sres) /\ the_req = the_url) =>
        LET t == the_url.query.x_amz_date
            at == unwrap(sres).at
        IN  (t <= at /\ at <= t + Expires) =>
                /\ the_out.result = Ok(the_url.query.x_amz_credential)
                /\ the_out.result.val \in AccessTokens

\* a url signed at t was presented at t + 3600, the last instant of its
\* validity, and accepted
C13_Witness ==
    /\ is_some(issued) /\ is_some(sres) /\ the_req = the_url
    /\ unwrap(sres).at = the_url.query.x_amz_date + Expires
    /\ the_out.result = Ok(the_url.query.x_amz_credential)

\* issued_at + expires_in < ts in unbounded arithmetic
past_expiry(date, expires, ts) == ~u64_carry(date, expires) /\ u64_lt(date + expires, ts)

\* C14: the verdict on a query is MalformedQuery when the five fields do not
\* parse, else NotYetValid when now < issued_at, else Expired when
\* issued_at + expires_in < now, else BadSignature when the signature does
\* not match, else accepted.
C14_VerdictByTime ==
    is_some(sres) =>
        LET q == the_req.query
            ts == unwrap(sres).at
            res == the_out.result
        IN  IF ~query_ok(q) THEN res = Err("invalid query")
            ELSE IF u64_lt(ts, q.x_amz_date) THEN res = Err("WTF")
            ELSE IF past_expiry(q.x_amz_date, q.x_amz_expires, ts) THEN res = Err("timeout")
            ELSE IF q.x_amz_signature #
                        sign([path |-> the_req.path,
                              x_amz_algorithm |-> q.x_amz_algorithm,
                              x_amz_credential |-> q.x_amz_credential,
                              x_amz_date |-> q.x_amz_date,
                              x_amz_expires |-> q.x_amz_expires])
                 THEN res = Err("invalid signature")
            ELSE res = Ok(q.x_amz_credential)

\* C15: the query of a url signed for one path, presented with another path,
\* is rejected: 401, and the request is not forwarded to the file server.
C15_PathBinding ==
    (is_some(issued) /\ is_some(sres)
        /\ query_ok(the_req.query) /\ the_req.query = the_url.query
        /\ the_req.path # the_url.path) =>
            /\ the_out.result.tag = "Err"
            /\ the_out.status = 401 /\ ~the_out.forwarded

\* the query of a url signed for one path was presented with another path
\* within its validity, and rejected for its signature
C15_Witness ==
    /\ is_some(issued) /\ is_some(sres)
    /\ query_ok(the_req.query) /\ the_req.query = the_url.query
    /\ the_req.path # the_url.path
    /\ unwrap(sres).at = the_url.query.x_amz_date + 1
    /\ the_out.result = Err("invalid signature")
    /\ the_out.status = 401

\* C16: a request to /static/ is forwarded to the file server only if
\* verification accepted its query, and is answered 401 otherwise.
C16_GateRejects401 ==
    is_some(sres) =>
        /\ the_out.forwarded => the_out.result.tag = "Ok"
        /\ (the_out.result.tag # "Ok") => (the_out.status = 401 /\ ~the_out.forwarded)

\* C17: a request to /static/ is forwarded only if the credential of its
\* query is the access token of a configured bucket.
C17_SharedSecretGate ==
    (is_some(sres) /\ the_out.forwarded) =>
        the_req.query.x_amz_credential \in AccessTokens

\* C18: two requests of one kind that differ only in ttl (absent or
\* present, whatever its value) are given the same artifact key by
\* filename().
C18_KeyIgnoresTtl ==
    \A a, b \in ReqIds :
        (/\ is_some(params[a]) /\ is_some(params[b])
         /\ unwrap(params[a]).kind = unwrap(params[b]).kind
         /\ unwrap(params[a]).url = unwrap(params[b]).url)
        => filename(unwrap(params[a])) = filename(unwrap(params[b]))

\* the window a configured quota is counted over (milliseconds)
Window(value) ==
    CASE value.type = "QPS" -> 1000
      [] value.type = "QPM" -> 60000
      [] value.type = "QPH" -> 3600000

\* the requests of one remote address the IP limiter admitted in [a, a + w)
AdmittedIp(ip, a, w) ==
    {i \in DOMAIN rl_log :
        /\ rl_log[i].ip = ip /\ rl_log[i].ip_ok
        /\ a <= rl_log[i].at /\ rl_log[i].at < a + w}

\* the requests the limiter of one route admitted in [a, a + w)
AdmittedNs(route, a, w) ==
    {i \in DOMAIN rl_log :
        /\ rl_log[i].route = route /\ rl_log[i].ns_ok = Some(TRUE)
        /\ a <= rl_log[i].at /\ rl_log[i].at < a + w}

\* C19: for each limiter and each key, the requests admitted in any window
\* of the configured unit (a second for QPS, a minute for QPM, an hour for
\* QPH) number at most the configured times, and requests are decided in
\* arrival order.
C19_QuotaPerWindow ==
    /\ \A i \in DOMAIN rl_log :
        /\ Cardinality(AdmittedIp(rl_log[i].ip, rl_log[i].at, Window(rl_cfg.http)))
               <= rl_cfg.http.times
        /\ Cardinality(AdmittedNs(rl_log[i].route, rl_log[i].at, Window(rl_cfg.bucket)))
               <= rl_cfg.bucket.times
    /\ \A i, j \in DOMAIN rl_log : i < j => rl_log[i].at <= rl_log[j].at

\* governor's Quota::per_hour, which Fns::per_hour does not call
Quota_per_hour(n) == [max_burst |-> n, replenish_1_per |-> 3600000 \div n]

\* C20: the limiter built from QPH(n), the IP limiter and the namespace
\* limiter alike, replenishes n admissions per hour.
C20_TrueHourScaling ==
    \A value \in {rl_cfg.http, rl_cfg.bucket} :
        (value.type = "QPH" /\ Len(rl_log) > 0)
        => limiter_from(value) = Quota_per_hour(value.times)

\* the limiter with this quota and this state for the key has a cell for
\* the key at instant t
Available(quota, tat, t) == check_key(quota, tat, t).ok

\* the answer r of a middleware whose limiter denied the key at r.at: 429,
\* not forwarded, and Retry-After = s where the first instant with a cell
\* lies in [r.at + s seconds, r.at + s + 1 seconds)
Denied(r, quota, tat) ==
    /\ r.status = 429 /\ ~r.forwarded
    /\ is_some(r.retry_after)
    /\ LET s == unwrap(r.retry_after)
       IN  /\ s >= 0
           /\ s > 0 => ~Available(quota, tat, r.at + s * 1000 - 1)
           /\ Available(quota, tat, r.at + (s + 1) * 1000 - 1)

\* C21: a request whose key both limiters admit is forwarded to the
\* handler; a request a limiter denies is answered 429 with Retry-After
\* holding the whole seconds until a cell is available, and is not
\* forwarded.
C21_LimiterContract ==
    [][Len(rl_log') = Len(rl_log) + 1 =>
        LET r == rl_log'[Len(rl_log')]
            ipq == limiter_from(rl_cfg.http)
            nsq == limiter_from(rl_cfg.bucket)
        IN  IF ~Available(ipq, ip_tat[r.ip], r.at)
            THEN Denied(r, ipq, ip_tat[r.ip]) /\ ns_tat' = ns_tat
            ELSE IF ~Available(nsq, ns_tat[r.route], r.at)
            THEN Denied(r, nsq, ns_tat[r.route])
            ELSE r.forwarded /\ r.status # 429 /\ r.retry_after = None]_vars

C21_Witness ==
    \E i, j, k \in DOMAIN rl_log :
        /\ rl_log[i].forwarded
        /\ ~rl_log[j].ip_ok /\ rl_log[j].status = 429
        /\ rl_log[k].ns_ok = Some(FALSE) /\ rl_log[k].status = 429
        /\ unwrap(rl_log[k].retry_after) > 0

\* C22: a request whose query did not deserialize (malformed, or without
\* url) is answered 400, its handler returns normally and no task is
\* enqueued for it.
C22_BadQuery400 ==
    \A h \in ReqIds :
        (hpc[h] # "new" /\ params[h] = None) =>
            /\ resp[h].status = 400
            /\ hpc[h] = "done"
            /\ h \notin Range(enq)

\* the handler of request h redirected from the cache, without enqueuing
FastPath(h) == resp[h].status = 302 /\ h \notin Range(enq)

\* at its probe the bucket held the artifact of request h, the request
\* carried a ttl and now <= last_modified + ttl
FreshAtProbe(h) ==
    /\ is_some(unwrap(probe[h]).lm)
    /\ is_some(unwrap(params[h]).ttl)
    /\ unwrap(probe[h]).at <= unwrap(unwrap(probe[h]).lm) + unwrap(unwrap(params[h]).ttl)

\* C23: a handler redirects from the cache without enqueuing if and only
\* if the blob exists, the request carries a ttl and
\* now <= last_modified + ttl; a request without ttl always enqueues.
C23_FastPathIff ==
    \A h \in ReqIds :
        is_some(probe[h]) =>
            /\ FastPath(h) <=> FreshAtProbe(h)
            /\ unwrap(params[h]).ttl = None => h \in Range(enq)

\* an identical request before b was enqueued and taken by a worker, the
\* store holds its artifact where the worker writes it, and b's probe
\* falls within b's ttl of that write
RenderedWithinTtl(b) ==
    /\ \E a \in ReqIds : a # b /\ params[a] = params[b] /\ a \in Range(enq) /\ deq[a] > 0
    /\ is_some(unwrap(probe[b]).lm)
    /\ is_some(unwrap(params[b]).ttl)
    /\ unwrap(probe[b]).at < unwrap(unwrap(probe[b]).lm) + unwrap(unwrap(params[b]).ttl)

\* C24: the probe looks where the worker writes: a request that follows the
\* successful render of an identical request within ttl is answered 302
\* from the cache and no task is enqueued for it, on both routes.
C24_ProbeWhereWritten ==
    \A b \in ReqIds :
        (is_some(probe[b]) /\ RenderedWithinTtl(b)) => FastPath(b)

\* a reply was sent on the channel of request h
Replied(h) == oneshot[h].st \in {"sent", "discarded"}

\* the path the artifact of request h is stored at
own_path(h) ==
    StorePath(root, filename(unwrap(params[h])), ext_of(unwrap(params[h]).kind))

\* C25: a task is dequeued by at most one worker and replied to at most
\* once, the reply is sent by the worker that holds the task on the channel
\* of the handler that created it, and a Some(url) reply (and the redirect
\* made from it) names that task's own artifact path.
C25_ReplyCorrelation ==
    /\ [](\A h \in ReqIds :
            /\ deq[h] <= 1
            /\ Cardinality({i \in DOMAIN workers : Holds(i, h)}) <= 1
            /\ Replied(h) => deq[h] = 1
            /\ (Replied(h) /\ is_some(oneshot[h].val)) => oneshot[h].val = Some(own_path(h))
            /\ (h \in Range(enq) /\ resp[h].status = 302) => resp[h].location = Some(own_path(h)))
    /\ [][\A h \in ReqIds :
            (oneshot'[h] # oneshot[h] /\ Replied(h)') =>
                /\ oneshot[h].st \in {"open", "rx_dropped"}
                /\ \E i \in DOMAIN workers : Holds(i, h) /\ workers'[i] # workers[i]]_vars

C25_Witness ==
    \E a, b \in ReqIds :
        /\ Replied(a) /\ Replied(b)
        /\ is_some(oneshot[a].val) /\ is_some(oneshot[b].val)
        /\ oneshot[a].val # oneshot[b].val
        /\ kind_of(a) = kind_of(b)
        /\ resp[a].status = 302

\* C26: a Some(url) reply is sent only after the artifact was written to
\* the bucket's store: the path a reply names, and the path a handler
\* redirects to from a reply, holds the artifact.
C26_ReplyAfterWrite ==
    \A h \in ReqIds :
        /\ (Replied(h) /\ is_some(oneshot[h].val)) => exists(unwrap(oneshot[h].val))
        /\ (h \in Range(enq) /\ resp[h].status = 302) => exists(unwrap(resp[h].location))

\* the workers spawned at startup: the first PoolSize + 1 of the workers
\* ever spawned
Startup == 1..(PoolSize + 1)

\* C27: the workers spawned at startup are N = PoolSize screenshot workers
\* with the ids 0..N-1 and M = 1 PDF workers with the ids N..N+M-1: the
\* initial ids are exactly 0..N+M-1.
C27_StartupIds ==
    /\ {workers[n].id : n \in {m \in Startup : workers[m].kind = "screenshot"}}
           = 0..(PoolSize - 1)
    /\ {workers[n].id : n \in {m \in Startup : workers[m].kind = "pdf"}}
           = PoolSize..PoolSize
    /\ {workers[n].id : n \in Startup} = 0..PoolSize

\* C28: the worker the supervisor spawns for an id received on the replace
\* channel has that id and the class of the worker that was started with
\* that id.
C28_ReplacementKeepsClass ==
    [][Len(workers') > Len(workers) =>
        /\ rch # <<>>
        /\ LET w == workers'[Len(workers')]
           IN  /\ w.id = Head(rch)
               /\ \E n \in Startup : workers[n].id = w.id /\ workers[n].kind = w.kind]_vars

C28_Witness ==
    \E j \in DOMAIN workers :
        /\ j \notin Startup
        /\ \E n \in Startup : workers[n].id = workers[j].id /\ workers[n].pc = "dead"

\* what Chrome prints with: printBackground is false and scale is 1.0 when
\* the parameter is absent
effective_background(cdp) == unwrap_or(cdp.print_background, FALSE)
effective_scale(cdp) == unwrap_or(cdp.scale, 10)

\* C29: the PDF worker prints with the parameters of the task it dequeued:
\* scale = request.scale / 10 (the bucket's default when the request names
\* none) and print_background = NOT omit_background.
C29_PrintParams ==
    \A n \in DOMAIN print_log :
        LET r == print_log[n]
        IN  /\ r.printed = r.cdp
            /\ effective_scale(r.printed) = unwrap_or(r.query.scale, DefaultScale)
            /\ effective_background(r.printed) = ~unwrap_or(r.query.omit_background, FALSE)

\* requests n and n + 1 came back to back and the first was forwarded
BackToBack(n) ==
    /\ n + 1 \in DOMAIN rl_log
    /\ rl_log[n + 1].at = rl_log[n].at
    /\ rl_log[n].forwarded

\* C30: with the bucket's limit QPM(1), the second of two back-to-back
\* requests for the bucket, on whichever of its two routes each of them
\* arrives, is answered 429 with Retry-After within 0..60.
C30_BucketWideLimit ==
    rl_cfg.bucket = QPM(1) =>
        \A n \in DOMAIN rl_log :
            BackToBack(n) =>
                /\ rl_log[n + 1].status = 429
                /\ is_some(rl_log[n + 1].retry_after)
                /\ unwrap(rl_log[n + 1].retry_after) \in 0..60

\* C31: two screenshot requests whose render parameters are the same once
\* the bucket's defaults are filled in have the same artifact key.
C31_DefaultsSameKey ==
    \A a, b \in DOMAIN shot_log :
        shot_log[a].task = shot_log[b].task => shot_log[a].filename = shot_log[b].filename

\* a worker that has taken a task and has not yet gone back for the next one
Rendering(i) == workers[i].pc \in {"render", "write", "blank"}

\* C32: a worker that is rendering a task does not hold the lock of its
\* kind's shared receiver, so an idle worker of that kind can take the lock.
C32_RenderOutsideLock ==
    \A i \in DOMAIN workers :
        Rendering(i) => mutex[workers[i].kind] # Some(i)

\* C33: a request the IP limiter denies leaves every namespace limiter as
\* it was and gets no namespace verdict; apart from that order the two
\* limiters do not touch each other: the IP verdict follows from the IP
\* limiter's state alone and its cell stays consumed whatever the namespace
\* limiter says, the namespace verdict follows from the route's limiter
\* alone, and the other keys and routes are left as they were.
C33_IpDenialKeepsNs ==
    [][Len(rl_log') = Len(rl_log) + 1 =>
        LET r == rl_log'[Len(rl_log')]
            ipq == limiter_from(rl_cfg.http)
            nsq == limiter_from(rl_cfg.bucket)
        IN  /\ ~r.ip_ok => ns_tat' = ns_tat /\ r.ns_ok = None
            /\ r.ip_ok = Available(ipq, ip_tat[r.ip], r.at)
            /\ r.ip_ok => /\ ip_tat'[r.ip] # ip_tat[r.ip]
                          /\ r.ns_ok = Some(Available(nsq, ns_tat[r.route], r.at))
            /\ \A a \in IPs \ {r.ip} : ip_tat'[a] = ip_tat[a]
            /\ \A q \in Routes \ {r.route} : ns_tat'[q] = ns_tat[q]]_vars

\* a request is denied by the IP limiter after the route's limiter has
\* admitted one, and the route's limiter admits a later one from another
\* address
C33_Witness ==
    \E i, j, k \in DOMAIN rl_log :
        /\ i < j /\ j < k
        /\ rl_log[i].route = rl_log[j].route /\ rl_log[j].route = rl_log[k].route
        /\ rl_log[i].ns_ok = Some(TRUE)
        /\ ~rl_log[j].ip_ok /\ rl_log[j].ns_ok = None
        /\ rl_log[k].ip # rl_log[j].ip /\ rl_log[k].ns_ok = Some(TRUE)

\* C34: for every pool_size of the configuration the startup gives the PDF
\* worker an id (the addition does not overflow) that is no screenshot
\* worker's id and that the supervisor's replacement test takes for a PDF
\* worker's.
C34_PdfIdApart ==
    /\ boot.pc # "panicked"
    /\ boot.pc = "spawned" =>
         /\ boot.pdf_id = boot.pool_size + 1
         /\ boot.pdf_id \notin 0..(boot.pool_size - 1)
         /\ replacement_test(boot.pdf_id, boot.pool_size)

\* C35: whatever X-Amz-Date and X-Amz-Expires a query carries, the expiry
\* test of verification, once reached, gives a result, and the result is
\* "expired" exactly when issued_at + expires_in < now in unbounded
\* arithmetic.
C35_ExpiryNeverOverflows ==
    (is_some(sres) /\ query_ok(the_req.query)
        /\ ~u64_lt(unwrap(sres).at, the_req.query.x_amz_date)) =>
        /\ the_out.result.tag \in {"Ok", "Err"}
        /\ (the_out.result = Err("timeout")) <=>
               past_expiry(the_req.query.x_amz_date,
                           the_req.query.x_amz_expires, unwrap(sres).at)

====
